---- MODULE Spec2Model ----
(***************************************************************************)
(* Message-send pipeline of intellex-api: send_message                      *)
(* (app/routers/projects.py), the orchestrator callback                     *)
(* (app/routers/orchestrator.py), the Redis job queue (app/queue.py), the   *)
(* inline generator (app/services) and the record store (app/storage.py).   *)
(*                                                                          *)
(* Every store call is one atomic step: the store is a remote database      *)
(* shared by all API instances, the callback handler is a sync handler run  *)
(* on a worker thread, and send_message awaits the queue and the generator, *)
(* so requests interleave between store calls.                              *)
(***************************************************************************)
EXTENDS Integers, Sequences, FiniteSets, TLC

\* ---------------------------------------------------------------- bounds
MaxReq == 2       \* send_message requests per behaviour
MaxCb == 2        \* callback requests per behaviour
MaxTicks == 1     \* clock advances per behaviour
MaxInFlight == 2  \* handlers running at the same time
MaxHandlers == 3  \* requests of both kinds per behaviour
MaxOps == 3       \* requests of the other project routes per behaviour

\* ------------------------------------------------------ program constants
PlaceholderOffset == 500
InlineOffset == 1500
PlanDescMax == 140

\* ----------------------------------------------------------- input sets
ProjectIds == {"P1", "P9"}
UserIds == {"u1", "u2"}
\* A string is the prefix of length len of a named text.
Str(text, len) == [text |-> text, len |-> len]
ShortContent == Str("update plan", 11)
LongContent == Str("long request", PlanDescMax + 1)
\* The r-th request sends the r-th content (short ones and long ones alternate).
Contents(r) == IF r % 2 = 1 THEN ShortContent ELSE LongContent
ResponseTexts == <<Str("Done.", 5), Str("Redo.", 5), Str("Again.", 6)>>
Reqs == 1..MaxReq
Cbs == 1..MaxCb

\* Optional[T]: None is the empty set, a present value v is {v}.
None == {}
Some(v) == {v}
The(o) == CHOOSE v \in o : TRUE

Min(a, b) == IF a <= b THEN a ELSE b

\* uuid.uuid4().hex[:n]: a token no other call returns; k numbers the calls
\* of request r.
Uuid(r, k) == ToString(r) \o ToString(k)

VARIABLES
    config,     \* process environment: REDIS_URL set, ORCHESTRATOR_CALLBACK_SECRET
    clock,      \* wall clock read by now_ms()
    projects,   \* table projects: id -> row
    plans,      \* table research_plans: project_id -> row (project_id is UNIQUE)
    messages,   \* table messages: set of rows, id is the primary key
    queue,      \* Redis list QUEUE_KEY
    req,        \* send_message requests: locals and position
    cb,         \* callback requests: locals and position
    plan_rows,  \* table research_plans: every row, as (id, project_id)
    ops         \* requests of the other project routes: locals and position

vars == <<config, clock, projects, plans, messages, queue, req, cb, plan_rows, ops>>

\* ------------------------------------------------------------- utils/time
\* The clock holds the value of the latest now_ms() call.
now_ms == clock

\* -------------------------------------------------------------- app/queue
get_redis == config.redis

build_job_id(r) == "job-" \o Uuid(r, 2)

\* Mutant: the derived id does not depend on the job.
build_agent_message_id_fixed(job_id) == "msg-agent"

build_agent_message_id(job_id) == "msg-agent-" \o job_id

JobPayload(job_id, project, user_content, callback_path) ==
    [jobId |-> job_id,
     project |-> project,
     userContent |-> user_content,
     callbackPath |-> callback_path,
     agentMessageId |-> build_agent_message_id(job_id)]

\* Mutant: the job is pushed at the head of the list.
lpush(q, payload) == <<payload>> \o q

\* redis.rpush(QUEUE_KEY, payload)
rpush(q, payload) == Append(q, payload)

\* ------------------------------------------------------------ app/storage
MessageIds == {m.id : m \in messages}
MessageById(id) == CHOOSE m \in messages : m.id = id
ProjectMessages(pid) == {m \in messages : m.projectId = pid}

ChatMessage(id, projectId, senderId, senderType, content, thoughts, timestamp) ==
    [id |-> id, projectId |-> projectId, senderId |-> senderId,
     senderType |-> senderType, content |-> content, thoughts |-> thoughts,
     timestamp |-> timestamp]

\* The row insert_message builds from a ChatMessage. An empty thoughts list and
\* an absent one are both stored as NULL; both are <<>> here.
MessageRow(message) ==
    [id |-> message.id, projectId |-> message.projectId, senderId |-> message.senderId,
     senderType |-> message.senderType, content |-> message.content,
     thoughts |-> message.thoughts, timestamp |-> message.timestamp]

\* A plain INSERT: rejected when the primary key exists or the project row
\* referenced by project_id is gone.
InsertAccepted(message) ==
    /\ message.id \notin MessageIds
    /\ projects[message.projectId].exists

insert_message(message) ==
    IF InsertAccepted(message) THEN messages \cup {MessageRow(message)} ELSE messages

\* UPDATE projects SET ... WHERE id = project_id: no row, no change.
update_project_timestamps(project_id, last_message_at, updated_at) ==
    IF projects[project_id].exists
    THEN [projects EXCEPT ![project_id].lastMessageAt = Some(last_message_at),
                          ![project_id].updatedAt = updated_at]
    ELSE projects

get_project(project_id) ==
    IF projects[project_id].exists THEN Some(projects[project_id]) ELSE None

get_plan(project_id) ==
    IF plans[project_id].exists THEN Some(plans[project_id]) ELSE None

\* s[:n]
Truncate(s, n) == Str(s.text, Min(s.len, n))

NewPlanItem(r, content) ==
    [id |-> "item-" \o Uuid(r, 4),
     title |-> "New Research Lead",
     description |-> Truncate(content, PlanDescMax),
     status |-> "in-progress"]

default_plan_items ==
    << [id |-> "item-a", title |-> "Clarify Objective",
        description |-> Str("Break down the request", 22), status |-> "in-progress"],
       [id |-> "item-b", title |-> "Collect Sources",
        description |-> Str("Query recent papers", 19), status |-> "pending"],
       [id |-> "item-c", title |-> "Synthesize Findings",
        description |-> Str("Draft executive summary", 23), status |-> "pending"] >>

\* -------------------------------------------------------------- app/models
\* pydantic BaseModel: fields the class does not declare are ignored.
SendMessageResponseFields == {"userMessage", "agentMessage", "plan"}

SendMessageResponse(kwargs) ==
    [f \in SendMessageResponseFields |->
        IF f \in DOMAIN kwargs THEN kwargs[f] ELSE None]

\* ------------------------------------------------------------ app/services
NotConnectedText ==
    Str("I'm not connected to the model right now. Please check the OPENAI_API_KEY configuration.", 88)
TroubleText ==
    Str("I'm having trouble connecting to my brain right now. Please check my API keys.", 78)
\* Whatever the model answers.
ModelText == Str("model reply", 11)

\* What a generate_response call meets: no client was built (no usable
\* OPENAI_API_KEY in this API process), llm.ainvoke raises, or it replies.
LlmOutcomes == {"no_client", "raised", "reply"}

\* Mutant: the missing client is answered with the text of the except clause.
generate_response_one_text(outcome) ==
    IF outcome \in {"no_client", "raised"} THEN TroubleText ELSE ModelText

\* LLMService.generate_response
generate_response(outcome) ==
    IF outcome = "no_client" THEN NotConnectedText
    ELSE IF outcome = "raised" THEN TroubleText
    ELSE ModelText

\* AgentOrchestrator.process_message: (response_content, thoughts); a thought
\* is represented by its title.
process_message(outcome) ==
    [content |-> generate_response(outcome),
     thoughts |-> <<"Analyzing Request", "Formulating Strategy", "Generating Response">>]

\* ------------------------------------------------------------------- state
IdleReq ==
    [pc |-> "idle", project_id |-> "", auth_user |-> "", content |-> Str("", 0),
     project |-> None, timestamp |-> 0, user_msg |-> None, plan_read |-> None,
     updated_plan |-> None, job_id |-> "", agent_message_id |-> "",
     llm |-> "", agent_msg |-> None, response |-> None, status |-> 0]

IdleCb ==
    [pc |-> "idle", payload |-> None, timestamp |-> 0, status |-> 0]

Ops == 1..MaxOps
IdleOp ==
    [pc |-> "idle", route |-> "", project_id |-> "", auth_user |-> "",
     project |-> None, plan_id |-> "", status |-> 0]

ProjectRow(id, userId, exists) ==
    [id |-> id, exists |-> exists, userId |-> userId, createdAt |-> now_ms,
     updatedAt |-> now_ms, lastMessageAt |-> None]

PlanRow(projectId, exists) ==
    [id |-> "plan-" \o projectId, exists |-> exists, projectId |-> projectId,
     items |-> IF exists THEN default_plan_items ELSE <<>>]

\* The rows of research_plans behind the plans a project_id selects.
PlanRowsOf(table) ==
    {[id |-> table[p].id, projectId |-> p] : p \in {q \in ProjectIds : table[q].exists}}

\* P1 exists and is owned by u1, with a plan (create_project) or without one
\* (the plan row is created lazily); P9 resolves to no project.
Init ==
    /\ config \in [redis : BOOLEAN, secret : {"", "s3cret"}]
    /\ clock = PlaceholderOffset
    /\ projects = [p \in ProjectIds |-> ProjectRow(p, "u1", p # "P9")]
    /\ \E planned \in BOOLEAN :
            plans = [p \in ProjectIds |-> PlanRow(p, p = "P1" /\ planned)]
    /\ plan_rows = PlanRowsOf(plans)
    /\ messages = {}
    /\ queue = <<>>
    /\ req = [r \in Reqs |-> IdleReq]
    /\ cb = [c \in Cbs |-> IdleCb]
    /\ ops = [o \in Ops |-> IdleOp]

\* The values a now_ms() call can return: time does not run backwards, and
\* the granule is the smallest offset the pipeline adds to a timestamp.
MaxClock == PlaceholderOffset * (MaxTicks + 1)
NowValues == {t \in clock..MaxClock : (t - clock) % PlaceholderOffset = 0}

\* ------------------------------------------------ routers/projects.py
\* Mutant: any authenticated user may post to any existing project.
_ensure_owner_any_user(project, auth_user) ==
    IF project = None THEN 404 ELSE 0

\* _ensure_owner: 404 for no project, 403 for another user's project, else 0.
_ensure_owner(project, auth_user) ==
    IF project = None THEN 404
    ELSE IF The(project).userId # auth_user THEN 403
    ELSE 0

Started(r) == req[r].pc # "idle"

\* line 229 and line 284: f"msg-{uuid.uuid4().hex[:8]}"
UserMessageId(r) == "msg-" \o Uuid(r, 1)
InlineMessageId(r) == "msg-" \o Uuid(r, 3)

Begun ==
    Cardinality({r \in Reqs : req[r].pc # "idle"})
        + Cardinality({c \in Cbs : cb[c].pc # "idle"})
        + Cardinality({o \in Ops : ops[o].pc # "idle"})

InFlight ==
    Cardinality({r \in Reqs : req[r].pc \notin {"idle", "done"}})
        + Cardinality({c \in Cbs : cb[c].pc \notin {"idle", "done"}})
        + Cardinality({o \in Ops : ops[o].pc \notin {"idle", "done"}})

\* line 226: project = _ensure_owner(store.get_project(project_id), auth_user)
SM_Begin(r, project_id, auth_user, content) ==
    /\ req[r].pc = "idle"
    /\ IF r = 1 THEN TRUE ELSE Started(r - 1)
    /\ InFlight < MaxInFlight
    /\ Begun < MaxHandlers
    /\ LET project == get_project(project_id)
           refused == _ensure_owner(project, auth_user)
       IN req' = [req EXCEPT ![r] =
                    IF refused # 0
                    THEN [@ EXCEPT !.pc = "done", !.status = refused,
                                   !.project_id = project_id, !.auth_user = auth_user]
                    ELSE [@ EXCEPT !.pc = "insert_user", !.project_id = project_id,
                                   !.auth_user = auth_user, !.content = content,
                                   !.project = project]]
    /\ UNCHANGED <<ops, plan_rows, config, clock, projects, plans, messages, queue, cb>>

\* lines 228-239: the user message, stamped now_ms(), is inserted.
SM_InsertUserMessage(r, now) ==
    /\ req[r].pc = "insert_user"
    /\ clock' = now
    /\ LET project == The(req[r].project)
           user_msg == ChatMessage(UserMessageId(r), project.id, project.userId,
                                   "user", req[r].content, <<>>, now)
       IN /\ messages' = insert_message(user_msg)
          /\ req' = [req EXCEPT ![r] =
                IF InsertAccepted(user_msg)
                THEN [@ EXCEPT !.pc = "plan_read", !.timestamp = now,
                               !.user_msg = Some(user_msg)]
                ELSE [@ EXCEPT !.pc = "done", !.status = 500]]
    /\ UNCHANGED <<ops, plan_rows, config, projects, plans, queue, cb>>

\* Mutant: a missing plan is created on the way, as ensure_plan_for_project does.
SM_PlanReadCreates(r) ==
    /\ req[r].pc = "plan_read"
    /\ LET pid == The(req[r].project).id
           existing == get_plan(pid)
       IN /\ plans' = IF existing = None
                      THEN [plans EXCEPT ![pid] = PlanRow(pid, TRUE)]
                      ELSE plans
          /\ req' = [req EXCEPT ![r] =
                    IF existing = None
                    THEN [@ EXCEPT !.pc = "dispatch", !.updated_plan = None]
                    ELSE [@ EXCEPT !.pc = "plan_write", !.plan_read = existing]]
    /\ UNCHANGED <<ops, plan_rows, config, clock, projects, messages, queue, cb>>

\* append_plan_item, storage.py 443-445: select the plan; none, return None.
SM_PlanRead(r) ==
    /\ req[r].pc = "plan_read"
    /\ LET existing == get_plan(The(req[r].project).id)
       IN req' = [req EXCEPT ![r] =
                    IF existing = None
                    THEN [@ EXCEPT !.pc = "dispatch", !.updated_plan = None]
                    ELSE [@ EXCEPT !.pc = "plan_write", !.plan_read = existing]]
    /\ UNCHANGED <<ops, plan_rows, config, clock, projects, plans, messages, queue, cb>>

\* The items append_plan_item writes back: the items it read plus the new one.
AppendedItems(r) ==
    Append(The(req[r].plan_read).items, NewPlanItem(r, req[r].content))

\* append_plan_item, storage.py 447-466: UPDATE research_plans SET items,
\* updated_at WHERE id = plan.id; returns the updated row, or get_plan when
\* the update matched no row.
SM_PlanWrite(r) ==
    /\ req[r].pc = "plan_write"
    /\ LET plan == The(req[r].plan_read)
           pid == plan.projectId
           matched == plans[pid].exists /\ plans[pid].id = plan.id
       IN /\ plans' = IF matched
                      THEN [plans EXCEPT ![pid].items = AppendedItems(r)]
                      ELSE plans
          /\ req' = [req EXCEPT ![r].pc = "dispatch",
                                ![r].plan_read = None,
                                ![r].updated_plan =
                                    IF matched THEN Some(plans'[pid]) ELSE get_plan(pid)]
    /\ UNCHANGED <<ops, plan_rows, config, clock, projects, messages, queue, cb>>

\* Mutant: the failing plan update takes the user message down with it, as a
\* handler wrapped in one transaction would.
SM_PlanFaultRollsBack(r) ==
    /\ req[r].pc \in {"plan_read", "plan_write"}
    /\ messages' = {m \in messages : m.id # UserMessageId(r)}
    /\ req' = [req EXCEPT ![r].pc = "done", ![r].status = 500, ![r].plan_read = None]
    /\ UNCHANGED <<ops, plan_rows, config, clock, projects, plans, queue, cb>>

\* line 241: a store call of append_plan_item raises (the store is remote);
\* nothing catches it, the request ends with a server error.
SM_PlanFault(r) ==
    /\ req[r].pc \in {"plan_read", "plan_write"}
    /\ req' = [req EXCEPT ![r].pc = "done", ![r].status = 500, ![r].plan_read = None]
    /\ UNCHANGED <<ops, plan_rows, config, clock, projects, plans, messages, queue, cb>>

\* line 244: get_redis() is None, the inline path is taken.
SM_NoQueue(r) ==
    /\ req[r].pc = "dispatch"
    /\ ~get_redis
    /\ req' = [req EXCEPT ![r].pc = "generate"]
    /\ UNCHANGED <<ops, plan_rows, config, clock, projects, plans, messages, queue, cb>>

\* queue.py enqueue_message, 34-54: the job is pushed at the tail and
\* (job_id, agent_message_id) returned.
SM_EnqueueOk(r) ==
    /\ req[r].pc = "dispatch"
    /\ get_redis
    /\ LET job_id == build_job_id(r)
       IN /\ queue' = rpush(queue, JobPayload(job_id, The(req[r].project),
                                              req[r].content, "/orchestrator/callback"))
          /\ req' = [req EXCEPT ![r].pc = "insert_placeholder",
                                ![r].job_id = job_id,
                                ![r].agent_message_id = build_agent_message_id(job_id)]
    /\ UNCHANGED <<ops, plan_rows, config, clock, projects, plans, messages, cb>>

\* Mutant: a failed enqueue is not caught and ends the request.
SM_EnqueueFailRaises(r) ==
    /\ req[r].pc = "dispatch"
    /\ get_redis
    /\ req' = [req EXCEPT ![r].pc = "done", ![r].status = 500]
    /\ UNCHANGED <<ops, plan_rows, config, clock, projects, plans, messages, queue, cb>>

\* lines 277-279: rpush raised (connection error); the handler logs and falls
\* through to the inline path.
SM_EnqueueFail(r) ==
    /\ req[r].pc = "dispatch"
    /\ get_redis
    /\ req' = [req EXCEPT ![r].pc = "generate"]
    /\ UNCHANGED <<ops, plan_rows, config, clock, projects, plans, messages, queue, cb>>

PlaceholderMessage(r) ==
    ChatMessage(req[r].agent_message_id, The(req[r].project).id, "agent-researcher",
                "agent", Str("Processing (job " \o req[r].job_id \o ")", 32),
                <<"Queued">>, req[r].timestamp + PlaceholderOffset)

\* lines 251-268: the placeholder is inserted; an insert that raises is caught
\* by the same except clause as a failed enqueue.
SM_InsertPlaceholder(r) ==
    /\ req[r].pc = "insert_placeholder"
    /\ LET agent_msg == PlaceholderMessage(r)
       IN /\ messages' = insert_message(agent_msg)
          /\ req' = [req EXCEPT ![r] =
                IF InsertAccepted(agent_msg)
                THEN [@ EXCEPT !.pc = "touch_queued", !.agent_msg = Some(agent_msg)]
                ELSE [@ EXCEPT !.pc = "generate"]]
    /\ UNCHANGED <<ops, plan_rows, config, clock, projects, plans, queue, cb>>

\* lines 269-276: project timestamps, then the response.
SM_ReturnQueued(r) ==
    /\ req[r].pc = "touch_queued"
    /\ LET agent_msg == The(req[r].agent_msg)
       IN /\ projects' = update_project_timestamps(The(req[r].project).id,
                                                   agent_msg.timestamp, agent_msg.timestamp)
          /\ req' = [req EXCEPT ![r].pc = "done", ![r].status = 202,
                        ![r].response = Some(SendMessageResponse(
                            [userMessage |-> req[r].user_msg,
                             agentMessage |-> req[r].agent_msg,
                             jobId |-> Some(req[r].job_id),
                             agentMessageId |-> Some(req[r].agent_message_id),
                             plan |-> req[r].updated_plan]))]
    /\ UNCHANGED <<ops, plan_rows, config, clock, plans, messages, queue, cb>>

\* Mutant: the inline answer stamped with the user message's own timestamp.
InlineMessageNoOffset(r, generated) ==
    ChatMessage(InlineMessageId(r), The(req[r].project).id, "agent-researcher",
                "agent", generated.content, generated.thoughts, req[r].timestamp)

InlineMessage(r, generated) ==
    ChatMessage(InlineMessageId(r), The(req[r].project).id, "agent-researcher",
                "agent", generated.content, generated.thoughts,
                req[r].timestamp + InlineOffset)

\* lines 282-297: orchestrator.process_message (no store access), then the
\* final agent message is inserted.
SM_InsertAgentMessage(r, outcome) ==
    /\ req[r].pc = "generate"
    /\ LET agent_msg == InlineMessage(r, process_message(outcome))
       IN /\ messages' = insert_message(agent_msg)
          /\ req' = [req EXCEPT ![r] =
                IF InsertAccepted(agent_msg)
                THEN [@ EXCEPT !.pc = "touch_inline", !.llm = outcome,
                               !.agent_msg = Some(agent_msg)]
                ELSE [@ EXCEPT !.pc = "done", !.llm = outcome, !.status = 500]]
    /\ UNCHANGED <<ops, plan_rows, config, clock, projects, plans, queue, cb>>

\* lines 298-300: project timestamps, then the response.
SM_ReturnInline(r) ==
    /\ req[r].pc = "touch_inline"
    /\ LET agent_msg == The(req[r].agent_msg)
       IN /\ projects' = update_project_timestamps(The(req[r].project).id,
                                                   agent_msg.timestamp, agent_msg.timestamp)
          /\ req' = [req EXCEPT ![r].pc = "done", ![r].status = 202,
                        ![r].response = Some(SendMessageResponse(
                            [userMessage |-> req[r].user_msg,
                             agentMessage |-> req[r].agent_msg,
                             plan |-> req[r].updated_plan]))]
    /\ UNCHANGED <<ops, plan_rows, config, clock, plans, messages, queue, cb>>

\* ---------------------------------------------- routers/orchestrator.py
\* Mutant: the endpoint is open whatever the configuration.
require_orchestrator_secret_open(x_orchestrator_secret) == TRUE

\* require_orchestrator_secret: TRUE when the request is let through.
require_orchestrator_secret(x_orchestrator_secret) ==
    ~(config.secret # "" /\ x_orchestrator_secret # config.secret)

\* Mutant: the callback derives the id from the job id with its own prefix
\* and ignores an explicit id.
ResolveAgentMessageIdOwnPrefix(payload) == "agent-msg-" \o payload.jobId

\* line 51: payload.agentMessageId or build_agent_message_id(payload.jobId);
\* an omitted id and an empty one are both falsy.
ResolveAgentMessageId(payload) ==
    IF payload.agentMessageId # "" THEN payload.agentMessageId
    ELSE build_agent_message_id(payload.jobId)

CallbackMessage(payload, timestamp) ==
    ChatMessage(ResolveAgentMessageId(payload), payload.projectId, "agent-researcher",
                "agent", payload.response, payload.thoughts, timestamp)

\* What the c-th caller of the callback endpoint can send: the job id of a
\* queued job or one the pipeline never issued, any project id, the c-th
\* response text, and either no agentMessageId or the id of a stored user
\* message; the first text comes with no thoughts, the others with one.
CallbackThoughts(response) == IF response = ResponseTexts[1] THEN <<>> ELSE <<"Answered">>

CallbackPayloads(c) ==
    { [jobId |-> j, projectId |-> p, response |-> ResponseTexts[c],
       thoughts |-> CallbackThoughts(ResponseTexts[c]), agentMessageId |-> a] :
        j \in {queue[i].jobId : i \in 1..Len(queue)} \cup {"job-ext"},
        p \in ProjectIds,
        a \in {""} \cup {m.id : m \in {u \in messages : u.senderType = "user"}} }

SecretHeaders == {"", "s3cret", "wrong"}

\* Mutant: the callback does not look the project up.
CB_BeginNoProjectCheck(c, payload, x_orchestrator_secret, now) ==
    /\ cb[c].pc = "idle"
    /\ IF c = 1 THEN TRUE ELSE cb[c - 1].pc # "idle"
    /\ InFlight < MaxInFlight
    /\ Begun < MaxHandlers
    /\ cb' = [cb EXCEPT ![c] =
                IF ~require_orchestrator_secret(x_orchestrator_secret)
                THEN [@ EXCEPT !.pc = "done", !.status = 401]
                ELSE [@ EXCEPT !.pc = "insert", !.payload = Some(payload),
                               !.timestamp = now]]
    /\ clock' = IF cb'[c].pc = "insert" THEN now ELSE clock
    /\ UNCHANGED <<ops, plan_rows, config, projects, plans, messages, queue, req>>

\* lines 23-50: the secret dependency, get_project, now_ms().
CB_Begin(c, payload, x_orchestrator_secret, now) ==
    /\ cb[c].pc = "idle"
    /\ IF c = 1 THEN TRUE ELSE cb[c - 1].pc # "idle"
    /\ InFlight < MaxInFlight
    /\ Begun < MaxHandlers
    /\ cb' = [cb EXCEPT ![c] =
                IF ~require_orchestrator_secret(x_orchestrator_secret)
                THEN [@ EXCEPT !.pc = "done", !.status = 401]
                ELSE IF get_project(payload.projectId) = None
                THEN [@ EXCEPT !.pc = "done", !.status = 404]
                ELSE [@ EXCEPT !.pc = "insert", !.payload = Some(payload),
                               !.timestamp = now]]
    /\ clock' = IF cb'[c].pc = "insert" THEN now ELSE clock
    /\ UNCHANGED <<ops, plan_rows, config, projects, plans, messages, queue, req>>

\* Mutant: the callback upserts, replacing whatever row has the id.
CB_InsertMessageUpsert(c) ==
    /\ cb[c].pc = "insert"
    /\ LET agent_msg == CallbackMessage(The(cb[c].payload), cb[c].timestamp)
       IN /\ messages' = {m \in messages : m.id # agent_msg.id}
                            \cup {MessageRow(agent_msg)}
          /\ cb' = [cb EXCEPT ![c].pc = "touch"]
    /\ UNCHANGED <<ops, plan_rows, config, clock, projects, plans, queue, req>>

\* Mutant: the callback only updates the row of that id; no row, no change.
CB_InsertMessageUpdateOnly(c) ==
    /\ cb[c].pc = "insert"
    /\ LET agent_msg == CallbackMessage(The(cb[c].payload), cb[c].timestamp)
       IN /\ messages' = {IF m.id = agent_msg.id THEN MessageRow(agent_msg) ELSE m :
                            m \in messages}
          /\ cb' = [cb EXCEPT ![c].pc = "touch"]
    /\ UNCHANGED <<ops, plan_rows, config, clock, projects, plans, queue, req>>

\* lines 51-63: store.insert_message(agent_msg); a rejected insert raises.
CB_InsertMessage(c) ==
    /\ cb[c].pc = "insert"
    /\ LET agent_msg == CallbackMessage(The(cb[c].payload), cb[c].timestamp)
       IN /\ messages' = insert_message(agent_msg)
          /\ cb' = [cb EXCEPT ![c] =
                IF InsertAccepted(agent_msg)
                THEN [@ EXCEPT !.pc = "touch"]
                ELSE [@ EXCEPT !.pc = "done", !.status = 500, !.payload = None,
                               !.timestamp = 0]]
    /\ UNCHANGED <<ops, plan_rows, config, clock, projects, plans, queue, req>>

\* Mutant: the project is stamped like a placeholder, ahead of the message.
CB_ReturnOffset(c) ==
    /\ cb[c].pc = "touch"
    /\ projects' = update_project_timestamps(The(cb[c].payload).projectId,
                                             cb[c].timestamp + PlaceholderOffset,
                                             cb[c].timestamp + PlaceholderOffset)
    /\ cb' = [cb EXCEPT ![c] = [IdleCb EXCEPT !.pc = "done", !.status = 204]]
    /\ UNCHANGED <<ops, plan_rows, config, clock, plans, messages, queue, req>>

\* lines 64-65: update_project_timestamps, 204.
CB_Return(c) ==
    /\ cb[c].pc = "touch"
    /\ projects' = update_project_timestamps(The(cb[c].payload).projectId,
                                             cb[c].timestamp, cb[c].timestamp)
    /\ cb' = [cb EXCEPT ![c] = [IdleCb EXCEPT !.pc = "done", !.status = 204]]
    /\ UNCHANGED <<ops, plan_rows, config, clock, plans, messages, queue, req>>

\* ----------------------------------------------------------- specification
SendMessage(r) ==
    \/ \E p \in ProjectIds, u \in UserIds : SM_Begin(r, p, u, Contents(r))
    \/ \E now \in NowValues : SM_InsertUserMessage(r, now)
    \/ SM_PlanRead(r)
    \/ SM_PlanWrite(r)
    \/ SM_NoQueue(r)
    \/ SM_EnqueueOk(r)
    \/ SM_EnqueueFail(r)
    \/ SM_InsertPlaceholder(r)
    \/ SM_ReturnQueued(r)
    \/ \E outcome \in LlmOutcomes : SM_InsertAgentMessage(r, outcome)
    \/ SM_ReturnInline(r)

Callback(c) ==
    \/ \E payload \in CallbackPayloads(c), h \in SecretHeaders, now \in NowValues :
            CB_Begin(c, payload, h, now)
    \/ CB_InsertMessage(c)
    \/ CB_Return(c)

Next ==
    \/ \E r \in Reqs : SendMessage(r)
    \/ \E c \in Cbs : Callback(c)

Spec == Init /\ [][Next]_vars

\* The pipeline with a plan update that can fail.
NextFault ==
    \/ Next
    \/ \E r \in Reqs : SM_PlanFault(r)

SpecFault == Init /\ [][NextFault]_vars

\* A request that has been accepted keeps running: the event loop resumes
\* every handler whose await has completed.
Resume(r) ==
    \/ \E now \in NowValues : SM_InsertUserMessage(r, now)
    \/ SM_PlanRead(r)
    \/ SM_PlanWrite(r)
    \/ SM_NoQueue(r)
    \/ SM_EnqueueOk(r)
    \/ SM_EnqueueFail(r)
    \/ SM_InsertPlaceholder(r)
    \/ SM_ReturnQueued(r)
    \/ \E outcome \in LlmOutcomes : SM_InsertAgentMessage(r, outcome)
    \/ SM_ReturnInline(r)

FairSpec == Spec /\ \A r \in Reqs : WF_vars(Resume(r))

\* ------------------------------------------ dependencies that do not answer
\* queue.py line 53: await redis.rpush(...). The client is built by
\* Redis.from_url(REDIS_URL, decode_responses=True), with no socket timeout, and
\* the await is not wrapped in a timeout: when Redis never replies the handler
\* stays in the await.
SM_EnqueueNoReply(r) ==
    /\ req[r].pc = "dispatch"
    /\ get_redis
    /\ req' = [req EXCEPT ![r].pc = "await_queue"]
    /\ UNCHANGED <<ops, plan_rows, config, clock, projects, plans, messages, queue, cb>>

\* llm.py line 37: await self.llm.ainvoke(messages) on a model that does not
\* reply.
SM_GeneratorNoReply(r) ==
    /\ req[r].pc = "generate"
    /\ req' = [req EXCEPT ![r].pc = "await_llm"]
    /\ UNCHANGED <<ops, plan_rows, config, clock, projects, plans, messages, queue, cb>>

\* llm.py lines 39-41: the model client gives the call up and raises (the
\* code passes ChatOpenAI no timeout, the client library applies its own);
\* the except clause turns it into the apology, which is inserted.
SM_GeneratorGivesUp(r) ==
    /\ req[r].pc = "await_llm"
    /\ LET agent_msg == InlineMessage(r, process_message("raised"))
       IN /\ messages' = insert_message(agent_msg)
          /\ req' = [req EXCEPT ![r] =
                IF InsertAccepted(agent_msg)
                THEN [@ EXCEPT !.pc = "touch_inline", !.llm = "raised",
                               !.agent_msg = Some(agent_msg)]
                ELSE [@ EXCEPT !.pc = "done", !.llm = "raised", !.status = 500]]
    /\ UNCHANGED <<ops, plan_rows, config, clock, projects, plans, queue, cb>>

NextHang ==
    \/ Next
    \/ \E r \in Reqs : SM_EnqueueNoReply(r)
    \/ \E r \in Reqs : SM_GeneratorNoReply(r)
    \/ \E r \in Reqs : SM_GeneratorGivesUp(r)

SpecHang == Init /\ [][NextHang]_vars

\* Every handler that can run on does so.
FairHang ==
    SpecHang /\ \A r \in Reqs : WF_vars(Resume(r) \/ SM_GeneratorGivesUp(r))

\* --------------------------------------- callbacks handled one after another
\* orchestrator_callback run from its first line to its last on the message
\* rows `rows`: the rows it leaves (lines 46-63).
complete_job(rows, payload, timestamp) ==
    IF get_project(payload.projectId) = None THEN rows
    ELSE LET agent_msg == CallbackMessage(payload, timestamp)
         IN IF agent_msg.id \in {m.id : m \in rows} THEN rows
            ELSE rows \cup {MessageRow(agent_msg)}

\* Message logs the callbacks can meet: empty, a user message, a user message
\* and the placeholder of its job.
SeedUserMessage ==
    ChatMessage("msg-11", "P1", "u1", "user", ShortContent, <<>>, PlaceholderOffset)
SeedPlaceholder ==
    ChatMessage("msg-agent-job-12", "P1", "agent-researcher", "agent",
                Str("Processing (job job-12)", 23), <<"Queued">>, 2 * PlaceholderOffset)
SeedLogs == {{}, {SeedUserMessage}, {SeedUserMessage, SeedPlaceholder}}

\* What the c-th of two callers sends: the job of the seeded placeholder or
\* another job, and no agentMessageId, the id of the user message or an id of
\* its own choice.
SequentialPayloads(c) ==
    { [jobId |-> j, projectId |-> p, response |-> ResponseTexts[c],
       thoughts |-> CallbackThoughts(ResponseTexts[c]), agentMessageId |-> a] :
        j \in {"job-12", "job-ext", "job-new"},
        p \in ProjectIds,
        a \in {"", "msg-11", "msg-x"} }

InitSequential ==
    /\ config = [redis |-> FALSE, secret |-> ""]
    /\ clock = PlaceholderOffset
    /\ projects = [p \in ProjectIds |-> ProjectRow(p, "u1", p # "P9")]
    /\ plans = [p \in ProjectIds |-> PlanRow(p, FALSE)]
    /\ plan_rows = {}
    /\ ops = [o \in Ops |-> IdleOp]
    /\ messages \in SeedLogs
    /\ queue = <<>>
    /\ req = [r \in Reqs |-> IdleReq]
    /\ \E p1 \in SequentialPayloads(1), p2 \in SequentialPayloads(2) :
            cb = [c \in Cbs |->
                    IF c = 1 THEN [IdleCb EXCEPT !.payload = Some(p1)]
                    ELSE IF c = 2 THEN [IdleCb EXCEPT !.payload = Some(p2)]
                    ELSE IdleCb]

\* One callback handled from its first line to its last, no other request in
\* between (lines 37-65).
CJ_Handle(c, now) ==
    /\ cb[c].pc = "idle"
    /\ cb[c].payload # None
    /\ LET payload == The(cb[c].payload)
           found == get_project(payload.projectId) # None
           written == complete_job(messages, payload, now) # messages
       IN /\ messages' = complete_job(messages, payload, now)
          /\ projects' = IF written
                         THEN update_project_timestamps(payload.projectId, now, now)
                         ELSE projects
          /\ clock' = IF found THEN now ELSE clock
          /\ cb' = [cb EXCEPT ![c].pc = "done",
                              ![c].timestamp = IF found THEN now ELSE 0,
                              ![c].status = IF ~found THEN 404
                                            ELSE IF written THEN 204 ELSE 500]
    /\ UNCHANGED <<ops, plan_rows, config, plans, queue, req>>

NextSequential ==
    \E c \in Cbs, now \in NowValues : CJ_Handle(c, now)

SpecSequential == InitSequential /\ [][NextSequential]_vars

\* ------------------------------------------- the other project routes
\* The rows of research_plans with a given project_id.
PlanRowsFor(project_id) == {row \in plan_rows : row.projectId = project_id}

\* Mutant: research_plans.project_id without its UNIQUE constraint.
PlanInsertAcceptedNotUnique(row) ==
    /\ row.id \notin {x.id : x \in plan_rows}
    /\ projects[row.projectId].exists

\* INSERT INTO research_plans: id is the primary key, project_id is UNIQUE and
\* references projects (database.py 45-51).
PlanInsertAccepted(row) ==
    /\ row.id \notin {x.id : x \in plan_rows}
    /\ PlanRowsFor(row.projectId) = {}
    /\ projects[row.projectId].exists

\* Mutant: projects rows are deleted whatever refers to them.
ProjectDeleteAcceptedUnchecked(project_id) == TRUE

\* DELETE FROM projects WHERE id = project_id: refused while a message or a
\* plan row refers to the project (FOREIGN KEY, database.py 50 and 61).
ProjectDeleteAccepted(project_id) ==
    /\ ProjectMessages(project_id) = {}
    /\ PlanRowsFor(project_id) = {}

\* users holds every user of UserIds.
find_user(identifier) ==
    IF identifier \in UserIds THEN Some(identifier) ELSE None

\* The id store.create_project draws for the project it inserts.
NewProjectId == "P9"
PlanIdOf(o) == "plan-" \o Uuid(o, 5)

OpBegins(o) ==
    /\ ops[o].pc = "idle"
    /\ IF o = 1 THEN TRUE ELSE ops[o - 1].pc # "idle"
    /\ Begun < MaxHandlers

\* get_plan, projects.py 198: plan = store.get_plan(project_id)
GP_Begin(o, project_id, auth_user) ==
    /\ OpBegins(o)
    /\ ops' = [ops EXCEPT ![o] =
                [@ EXCEPT !.route = "get_plan", !.project_id = project_id,
                          !.auth_user = auth_user,
                          !.pc = IF get_plan(project_id) # None
                                 THEN "owner_check" ELSE "get_project"]]
    /\ UNCHANGED <<config, clock, projects, plans, messages, queue, req, cb, plan_rows>>

\* lines 199-201: a plan was found; the owner check decides the answer.
GP_OwnerCheck(o) ==
    /\ ops[o].pc = "owner_check"
    /\ LET refused == _ensure_owner(get_project(ops[o].project_id), ops[o].auth_user)
       IN ops' = [ops EXCEPT ![o].pc = "done",
                             ![o].status = IF refused # 0 THEN refused ELSE 200]
    /\ UNCHANGED <<config, clock, projects, plans, messages, queue, req, cb, plan_rows>>

\* lines 203-204: no plan; the project is read and its owner checked.
GP_GetProject(o) ==
    /\ ops[o].pc = "get_project"
    /\ LET project == get_project(ops[o].project_id)
           refused == _ensure_owner(project, ops[o].auth_user)
       IN ops' = [ops EXCEPT ![o] =
                    IF refused # 0
                    THEN [@ EXCEPT !.pc = "done", !.status = refused]
                    ELSE [@ EXCEPT !.pc = "ensure_select", !.project = project]]
    /\ UNCHANGED <<config, clock, projects, plans, messages, queue, req, cb, plan_rows>>

\* create_project, projects.py 142-149: the caller creates projects for
\* itself only, and must be a stored user.
CP_Begin(o, userId, auth_user) ==
    /\ OpBegins(o)
    /\ \A x \in Ops : ops[x].route # "create_project"
    /\ ops' = [ops EXCEPT ![o] =
                [@ EXCEPT !.route = "create_project", !.auth_user = auth_user,
                          !.pc = IF userId = "" \/ userId # auth_user
                                    \/ find_user(userId) = None
                                 THEN "done" ELSE "create",
                          !.status = IF userId = "" THEN 400
                                     ELSE IF userId # auth_user THEN 403
                                     ELSE IF find_user(userId) = None THEN 404
                                     ELSE 0]]
    /\ UNCHANGED <<config, clock, projects, plans, messages, queue, req, cb, plan_rows>>

\* store.create_project, storage.py 345-369: the project row is inserted
\* under a new id, stamped now_ms().
CP_Insert(o, now) ==
    /\ ops[o].pc = "create"
    /\ ~projects[NewProjectId].exists
    /\ clock' = now
    /\ projects' = [projects EXCEPT ![NewProjectId] =
                        [id |-> NewProjectId, exists |-> TRUE,
                         userId |-> ops[o].auth_user, createdAt |-> now,
                         updatedAt |-> now, lastMessageAt |-> None]]
    /\ ops' = [ops EXCEPT ![o].pc = "ensure_select",
                          ![o].project_id = NewProjectId,
                          ![o].project = Some(projects'[NewProjectId])]
    /\ UNCHANGED <<config, plans, messages, queue, req, cb, plan_rows>>

\* ensure_plan_for_project, storage.py 410-412: select the project's plan; a
\* row found is returned.
EP_Select(o) ==
    /\ ops[o].pc = "ensure_select"
    /\ ops' = [ops EXCEPT ![o] =
                IF PlanRowsFor(The(@.project).id) # {}
                THEN [@ EXCEPT !.pc = "done",
                               !.status = IF ops[o].route = "create_project"
                                          THEN 201 ELSE 200]
                ELSE [@ EXCEPT !.pc = "ensure_insert", !.plan_id = PlanIdOf(o)]]
    /\ UNCHANGED <<config, clock, projects, plans, messages, queue, req, cb, plan_rows>>

\* lines 414-434: no row was found; a row with a new id and the default items
\* is inserted. A refused insert raises.
EP_Insert(o) ==
    /\ ops[o].pc = "ensure_insert"
    /\ LET pid == The(ops[o].project).id
           row == [id |-> ops[o].plan_id, projectId |-> pid]
           inserted == PlanInsertAccepted(row)
       IN /\ plan_rows' = IF inserted THEN plan_rows \cup {row} ELSE plan_rows
          /\ plans' = IF inserted /\ ~plans[pid].exists
                      THEN [plans EXCEPT ![pid] =
                                [PlanRow(pid, TRUE) EXCEPT !.id = row.id]]
                      ELSE plans
          /\ ops' = [ops EXCEPT ![o].pc = "done",
                                ![o].status =
                                    IF ~inserted THEN 500
                                    ELSE IF ops[o].route = "create_project"
                                         THEN 201 ELSE 200]
    /\ UNCHANGED <<config, clock, projects, messages, queue, req, cb>>

\* update_project, projects.py 171: the owner check of the route.
UP_Begin(o, project_id, auth_user) ==
    /\ OpBegins(o)
    /\ LET refused == _ensure_owner(get_project(project_id), auth_user)
       IN ops' = [ops EXCEPT ![o] =
                    [@ EXCEPT !.route = "update_project", !.project_id = project_id,
                              !.auth_user = auth_user,
                              !.pc = IF refused # 0 THEN "done" ELSE "update_get",
                              !.status = refused]]
    /\ UNCHANGED <<config, clock, projects, plans, messages, queue, req, cb, plan_rows>>

\* store.update_project, storage.py 378-390: the project is read again; no
\* row gives None (404 in the route), no field to change returns the row.
UP_Get(o, has_updates) ==
    /\ ops[o].pc = "update_get"
    /\ LET existing == get_project(ops[o].project_id)
       IN ops' = [ops EXCEPT ![o] =
                    IF existing = None
                    THEN [@ EXCEPT !.pc = "done", !.status = 404]
                    ELSE IF ~has_updates
                    THEN [@ EXCEPT !.pc = "done", !.status = 200]
                    ELSE [@ EXCEPT !.pc = "update_write", !.project = existing]]
    /\ UNCHANGED <<config, clock, projects, plans, messages, queue, req, cb, plan_rows>>

\* lines 392-396: updated_at = now_ms() is written with the changed fields.
UP_Write(o, now) ==
    /\ ops[o].pc = "update_write"
    /\ clock' = now
    /\ projects' = IF projects[ops[o].project_id].exists
                   THEN [projects EXCEPT ![ops[o].project_id].updatedAt = now]
                   ELSE projects
    /\ ops' = [ops EXCEPT ![o].pc = "done", ![o].status = 200]
    /\ UNCHANGED <<config, plans, messages, queue, req, cb, plan_rows>>

\* delete_project, projects.py 187: the owner check of the route.
DP_Begin(o, project_id, auth_user) ==
    /\ OpBegins(o)
    /\ LET refused == _ensure_owner(get_project(project_id), auth_user)
       IN ops' = [ops EXCEPT ![o] =
                    [@ EXCEPT !.route = "delete_project", !.project_id = project_id,
                              !.auth_user = auth_user,
                              !.pc = IF refused # 0 THEN "done" ELSE "delete_get",
                              !.status = refused]]
    /\ UNCHANGED <<config, clock, projects, plans, messages, queue, req, cb, plan_rows>>

\* store.delete_project, storage.py 399-401: no row, nothing is deleted.
DP_Get(o) ==
    /\ ops[o].pc = "delete_get"
    /\ ops' = [ops EXCEPT ![o] =
                IF get_project(@.project_id) = None
                THEN [@ EXCEPT !.pc = "done", !.status = 404]
                ELSE [@ EXCEPT !.pc = "delete_messages"]]
    /\ UNCHANGED <<config, clock, projects, plans, messages, queue, req, cb, plan_rows>>

\* line 403: DELETE FROM messages WHERE project_id = ...
DP_Messages(o) ==
    /\ ops[o].pc = "delete_messages"
    /\ messages' = messages \ ProjectMessages(ops[o].project_id)
    /\ ops' = [ops EXCEPT ![o].pc = "delete_plans"]
    /\ UNCHANGED <<config, clock, projects, plans, queue, req, cb, plan_rows>>

\* line 404: DELETE FROM research_plans WHERE project_id = ...
DP_Plans(o) ==
    /\ ops[o].pc = "delete_plans"
    /\ plan_rows' = plan_rows \ PlanRowsFor(ops[o].project_id)
    /\ plans' = [plans EXCEPT ![ops[o].project_id] = PlanRow(ops[o].project_id, FALSE)]
    /\ ops' = [ops EXCEPT ![o].pc = "delete_project"]
    /\ UNCHANGED <<config, clock, projects, messages, queue, req, cb>>

\* lines 405-406: DELETE FROM projects WHERE id = ...; a refused delete raises.
DP_Project(o) ==
    /\ ops[o].pc = "delete_project"
    /\ LET deleted == ProjectDeleteAccepted(ops[o].project_id)
       IN /\ projects' = IF deleted
                         THEN [projects EXCEPT ![ops[o].project_id].exists = FALSE]
                         ELSE projects
          /\ ops' = [ops EXCEPT ![o].pc = "done",
                                ![o].status = IF deleted THEN 204 ELSE 500]
    /\ UNCHANGED <<config, clock, plans, messages, queue, req, cb, plan_rows>>

EnsurePlan(o) ==
    \/ EP_Select(o)
    \/ EP_Insert(o)

GetPlan(o) ==
    \/ \E p \in ProjectIds, u \in UserIds : GP_Begin(o, p, u)
    \/ GP_OwnerCheck(o)
    \/ GP_GetProject(o)

CreateProject(o) ==
    \/ \E userId \in UserIds \cup {""}, u \in UserIds : CP_Begin(o, userId, u)
    \/ \E now \in NowValues : CP_Insert(o, now)

UpdateProject(o) ==
    \/ \E p \in ProjectIds, u \in UserIds : UP_Begin(o, p, u)
    \/ \E has_updates \in BOOLEAN : UP_Get(o, has_updates)
    \/ \E now \in NowValues : UP_Write(o, now)

DeleteProject(o) ==
    \/ \E p \in ProjectIds, u \in UserIds : DP_Begin(o, p, u)
    \/ DP_Get(o)
    \/ DP_Messages(o)
    \/ DP_Plans(o)
    \/ DP_Project(o)

\* Plan access alone: get_plan and create_project requests.
NextPlans ==
    \E o \in Ops : GetPlan(o) \/ CreateProject(o) \/ EnsurePlan(o)

SpecPlans == Init /\ [][NextPlans]_vars

\* The message pipeline together with update_project requests.
NextUpdate ==
    \/ Next
    \/ \E o \in Ops : UpdateProject(o)

SpecUpdate == Init /\ [][NextUpdate]_vars

\* The message pipeline together with delete_project requests.
NextDelete ==
    \/ Next
    \/ \E o \in Ops : DeleteProject(o)

SpecDelete == Init /\ [][NextDelete]_vars

\* ==================================================================== claims
\* The request passed the ownership check of line 226.
Accepted(r) == req[r].project # None

Returned(r) == req[r].pc = "done" /\ Accepted(r)

UserMessagesOf(r) ==
    {m \in messages : m.id = UserMessageId(r) /\ m.senderType = "user"}

\* The agent messages request r persisted: its placeholder or its inline answer.
AgentMessagesOf(r) ==
    {m \in messages :
        /\ m.senderType = "agent"
        /\ \/ m.id = InlineMessageId(r)
           \/ req[r].job_id # "" /\ m = PlaceholderMessage(r)}

\* C1: every send_message request on an existing project of the caller that
\* has returned persisted exactly one user message and exactly one agent
\* message (placeholder or inline answer), the agent message stamped strictly
\* later than the user message.
C1_OneUserOneAgent ==
    \A r \in Reqs :
        Returned(r) =>
            /\ req[r].status = 202
            /\ Cardinality(UserMessagesOf(r)) = 1
            /\ Cardinality(AgentMessagesOf(r)) = 1
            /\ \A u \in UserMessagesOf(r), a \in AgentMessagesOf(r) :
                    a.timestamp > u.timestamp

\* C1 witness: a request returned after a failed enqueue, another way than
\* the placeholder path.
C1_Witness ==
    \E r \in Reqs :
        /\ Returned(r) /\ config.redis /\ req[r].job_id = ""
        /\ \E a \in AgentMessagesOf(r) : a.id = InlineMessageId(r)

\* The callback c is writing its message in this step.
CallbackWrites(c) == cb[c].pc = "insert" /\ cb'[c].pc # "insert"

\* C2 (as claimed): a callback for job J of project P, sent after the
\* placeholder of J was persisted, succeeds, leaves the message of that id
\* with the callback's text, and leaves the number of messages of P unchanged.
C2_CallbackReplacesPlaceholder ==
    [][\A c \in Cbs :
        (/\ CallbackWrites(c)
         /\ The(cb[c].payload).agentMessageId = ""
         /\ \E r \in Reqs :
                /\ req[r].job_id = The(cb[c].payload).jobId
                /\ The(req[r].project).id = The(cb[c].payload).projectId
                /\ PlaceholderMessage(r) \in messages)
        => LET payload == The(cb[c].payload)
           IN /\ cb'[c].pc = "touch"
              /\ \E m \in messages' :
                    /\ m.id = build_agent_message_id(payload.jobId)
                    /\ m.content = payload.response
              /\ Cardinality({m \in messages' : m.projectId = payload.projectId})
                    = Cardinality(ProjectMessages(payload.projectId))]_vars

TextsOfCallbacks == {ResponseTexts[i] : i \in DOMAIN ResponseTexts}

\* C3 (as claimed): a second callback for a message id that an earlier
\* callback wrote, with another text, leaves the message count of the project
\* unchanged and the message of that id with the second text.
C3_SecondCallbackWins ==
    [][\A c \in Cbs :
        (/\ CallbackWrites(c)
         /\ \E m \in messages :
                /\ m.id = ResolveAgentMessageId(The(cb[c].payload))
                /\ m.projectId = The(cb[c].payload).projectId
                /\ m.content \in TextsOfCallbacks \ {The(cb[c].payload).response})
        => LET payload == The(cb[c].payload)
           IN /\ Cardinality({m \in messages' : m.projectId = payload.projectId})
                    = Cardinality(ProjectMessages(payload.projectId))
              /\ \E m \in messages' :
                    /\ m.id = ResolveAgentMessageId(payload)
                    /\ m.content = payload.response]_vars

\* C4 (as claimed): the response of a request whose enqueue succeeded and
\* whose placeholder was persisted carries the job id of the enqueued job.
C4_ResponseHasJobId ==
    \A r \in Reqs :
        (Returned(r) /\ req[r].status = 202 /\ req[r].job_id # ""
            /\ req[r].agent_msg = Some(PlaceholderMessage(r)))
        => /\ "jobId" \in DOMAIN The(req[r].response)
           /\ The(req[r].response)["jobId"] = Some(req[r].job_id)

\* What the agent side of request r leaves behind: its job, an agent message
\* of its own, its plan item.
AgentSideTraces(r) ==
    \/ \E i \in 1..Len(queue) : queue[i].jobId = build_job_id(r)
    \/ AgentMessagesOf(r) # {}
    \/ \E p \in ProjectIds : \E i \in 1..Len(plans[p].items) :
            plans[p].items[i].id = NewPlanItem(r, req[r].content).id

\* C5: the user message is persisted before any agent-side step of its
\* request: while the request has not passed the user-message insert nothing
\* of its agent side exists, and from then on, whatever step fails later, the
\* user message is in the message log.
C5_UserMessageFirst ==
    \A r \in Reqs :
        /\ req[r].pc \in {"idle", "insert_user"} => ~AgentSideTraces(r)
        /\ (Accepted(r) /\ req[r].pc # "insert_user") =>
                \E m \in UserMessagesOf(r) :
                    /\ m.content = req[r].content
                    /\ m.projectId = The(req[r].project).id

\* C5 witness: a request ended in an error at the plan step, its user message
\* persisted.
C5_Witness ==
    \E r \in Reqs :
        Returned(r) /\ req[r].status = 500 /\ UserMessagesOf(r) # {}

GeneratorTexts == {generate_response(o) : o \in LlmOutcomes}

\* C6: a request that found no queue, or whose enqueue failed, returns 202
\* with an inline (non-placeholder) agent message that is persisted, the
\* project's lastMessageAt and updatedAt set to that message's timestamp, and
\* no jobId in the response.
C6_SilentFallback ==
    [][\A r \in Reqs :
        (req[r].pc # "done" /\ req'[r].pc = "done" /\ Accepted(r) /\ req[r].job_id = "")
        => /\ req'[r].status = 202
           /\ req'[r].response # None
           /\ "jobId" \notin DOMAIN The(req'[r].response)
           /\ The(req'[r].response)["agentMessage"] = req'[r].agent_msg
           /\ \E a \in req'[r].agent_msg :
                /\ a \in messages'
                /\ a.id = InlineMessageId(r)
                /\ a.senderType = "agent"
                /\ a.content \in GeneratorTexts
                /\ a.timestamp = req[r].timestamp + InlineOffset
                /\ projects'[a.projectId].lastMessageAt = Some(a.timestamp)
                /\ projects'[a.projectId].updatedAt = a.timestamp]_vars

\* C6 witness: a request returned although its enqueue failed.
C6_Witness ==
    \E r \in Reqs :
        /\ Returned(r) /\ config.redis /\ req[r].job_id = "" /\ req[r].status = 202
        /\ req[r].llm = "reply"

GeneratorFailed(r) == req[r].llm \in {"no_client", "raised"}

\* C7 (as claimed): with no queue, every request whose generator call failed
\* returns 202 with one and the same fallback text.
C7_SingleApology ==
    \A r1, r2 \in Reqs :
        (/\ ~config.redis
         /\ Returned(r1) /\ GeneratorFailed(r1)
         /\ Returned(r2) /\ GeneratorFailed(r2))
        => /\ req[r1].status = 202 /\ req[r2].status = 202
           /\ The(req[r1].agent_msg).content = The(req[r2].agent_msg).content

\* C7 (amended): with no queue, a request whose generator call failed returns
\* 202, and the persisted and returned agent message carries the
\* not-connected notice when no client was built, the connection-trouble
\* apology when the model call raised.
C7_FallbackTexts ==
    \A r \in Reqs :
        (~config.redis /\ Returned(r) /\ GeneratorFailed(r))
        => /\ req[r].status = 202
           /\ req[r].response # None
           /\ The(req[r].response)["agentMessage"] = req[r].agent_msg
           /\ \E a \in req[r].agent_msg :
                /\ a \in messages
                /\ req[r].llm = "no_client" =>
                      a.content.text = "I'm not connected to the model right now. Please check the OPENAI_API_KEY configuration."
                /\ req[r].llm = "raised" =>
                      a.content.text = "I'm having trouble connecting to my brain right now. Please check my API keys."

\* C7 witness: with no queue, a request returned after the model call raised.
C7_Witness ==
    \E r \in Reqs :
        ~config.redis /\ Returned(r) /\ req[r].llm = "raised" /\ req[r].response # None

ExchangeComplete(r) ==
    /\ req[r].pc = "done"
    /\ req[r].status = 202
    /\ req[r].response # None
    /\ req[r].agent_msg # None
    /\ req[r].agent_msg \subseteq messages

Quiescent == \A r \in Reqs : req[r].pc \in {"idle", "done"}

CompletedOn(p) ==
    {r \in Reqs : Returned(r) /\ req[r].status = 202 /\ The(req[r].project).id = p}

\* C9 (as claimed): when N send_message calls on a project with a plan have
\* completed, the plan holds the items it had before and N more, the item of
\* each call titled "New Research Lead", in-progress, described by the
\* content cut to 140 characters.
C9_PlanGrowsByN ==
    \A p \in ProjectIds :
        (Quiescent /\ plans[p].exists) =>
            /\ Len(plans[p].items) = Len(default_plan_items) + Cardinality(CompletedOn(p))
            /\ \A r \in CompletedOn(p) :
                    \E i \in 1..Len(plans[p].items) :
                        /\ plans[p].items[i].title = "New Research Lead"
                        /\ plans[p].items[i].status = "in-progress"
                        /\ plans[p].items[i].description
                                = Str(req[r].content.text, Min(req[r].content.len, 140))

\* C10 (as claimed): every write of the plan leaves the items it held before
\* in place, unchanged and in the same order, at the head of the list.
C10_AppendOnly ==
    [][\A p \in ProjectIds :
        plans[p].exists =>
            /\ Len(plans'[p].items) >= Len(plans[p].items)
            /\ SubSeq(plans'[p].items, 1, Len(plans[p].items)) = plans[p].items]_vars

\* The project request r works on, once accepted.
ProjectOf(r) == The(req[r].project).id

C12_PlanFailureNonFatal ==
    \A r \in Reqs :
        (req[r].pc = "done" /\ req[r].user_msg # None)
        => /\ req[r].status = 202
           /\ req[r].agent_msg # None
           /\ req[r].agent_msg \subseteq messages
           /\ req[r].response # None
           /\ "plan" \in DOMAIN The(req[r].response)

\* The header h passes the secret check of the callback endpoint.
SecretPasses(h) == config.secret = "" \/ h = config.secret

\* C13: a callback that passes the secret check and names a project id that
\* resolves to no project ends with 404 in that very step, and the step
\* leaves the messages and the project rows as they were.
C13_CallbackNotFound ==
    [][\A c \in Cbs :
        \A payload \in CallbackPayloads(c), h \in SecretHeaders, now \in NowValues :
            (/\ CB_Begin(c, payload, h, now)
             /\ SecretPasses(h)
             /\ ~projects[payload.projectId].exists)
            => /\ cb'[c].pc = "done"
               /\ cb'[c].status = 404
               /\ messages' = messages
               /\ projects' = projects]_vars

\* C13 witness: a callback was answered 404.
C13_Witness ==
    \E c \in Cbs : cb[c].pc = "done" /\ cb[c].status = 404

C15_SecretGuardsCallback ==
    [][/\ \A c \in Cbs :
            \A payload \in CallbackPayloads(c), h \in SecretHeaders, now \in NowValues :
                CB_Begin(c, payload, h, now)
                => IF config.secret # "" /\ h # config.secret
                   THEN /\ cb'[c].pc = "done" /\ cb'[c].status = 401
                        /\ messages' = messages /\ projects' = projects
                   ELSE cb'[c].status # 401
       /\ \A c \in Cbs :
            cb[c].status = 401 => cb'[c] = cb[c]
       /\ (req' = req /\ (messages' # messages \/ projects' # projects))
            => \E c \in Cbs : cb[c].pc \in {"insert", "touch"} /\ cb'[c] # cb[c]]_vars

\* C15 witness: with a secret configured, one callback was rejected for its
\* header and another was let through and has written its message.
C15_Witness ==
    /\ config.secret # ""
    /\ \E c1, c2 \in Cbs :
            /\ cb[c1].pc = "done" /\ cb[c1].status = 401
            /\ cb[c2].pc = "touch"

\* C16: the step in which a send_message request enters ends it with 404
\* when the project id resolves to no project and with 403 when the project
\* belongs to another user, leaving messages, plans, queue and project rows
\* unchanged; and every request that is past its entry, hence every request
\* that writes or enqueues, is on an existing project of its caller.
C16_OwnerOnly ==
    [][\A r \in Reqs :
        /\ (req[r].pc = "idle" /\ req'[r].pc # "idle")
           => LET p == req'[r].project_id
                  u == req'[r].auth_user
              IN IF ~projects[p].exists
                 THEN /\ req'[r].pc = "done" /\ req'[r].status = 404
                      /\ UNCHANGED <<messages, plans, queue, projects>>
                 ELSE IF projects[p].userId # u
                 THEN /\ req'[r].pc = "done" /\ req'[r].status = 403
                      /\ UNCHANGED <<messages, plans, queue, projects>>
                 ELSE req'[r].pc = "insert_user" /\ req'[r].status = 0
        /\ req[r].status \in {403, 404} => req'[r] = req[r]
        /\ (req[r].pc \notin {"idle", "done"} /\ req'[r] # req[r])
           => /\ projects[req[r].project_id].exists
              /\ projects[req[r].project_id].userId = req[r].auth_user
              /\ req[r].project # None
              /\ ProjectOf(r) = req[r].project_id
        /\ (cb' = cb /\ <<messages, plans, queue, projects>>' # <<messages, plans, queue, projects>>)
           => \E w \in Reqs : req[w].pc \notin {"idle", "done"} /\ req'[w] # req[w]]_vars

\* C16 witness: one request was refused for a missing project and another
\* for a project of another user.
C16_Witness ==
    \E r1, r2 \in Reqs :
        /\ req[r1].pc = "done" /\ req[r1].status = 404
        /\ req[r2].pc = "done" /\ req[r2].status = 403

\* No handler of either kind is running.
NoneInFlight == InFlight = 0

\* The timestamp of the most recent message of project p (p has messages).
MaxTimestamp(p) ==
    CHOOSE t \in {m.timestamp : m \in ProjectMessages(p)} :
        \A m \in ProjectMessages(p) : m.timestamp <= t

\* C17 (as claimed): whenever no request is in flight, the lastMessageAt of a
\* project, when set, is the largest timestamp among the project's messages.
C17_LastMessageAtIsMax ==
    \A p \in ProjectIds :
        (NoneInFlight /\ projects[p].exists /\ projects[p].lastMessageAt # None)
        => /\ ProjectMessages(p) # {}
           /\ The(projects[p].lastMessageAt) = MaxTimestamp(p)

\* C18 (as claimed): no two distinct messages of one project carry the same
\* timestamp.
C18_UniqueTimestamps ==
    \A m1, m2 \in messages :
        (m1.projectId = m2.projectId /\ m1.timestamp = m2.timestamp) => m1 = m2

\* C19 (as claimed): when a callback for a job that send_message enqueued
\* writes its message under the id derived from the job, the placeholder of
\* that job has been persisted.
C19_CallbackAfterPlaceholder ==
    [][\A c \in Cbs :
        CallbackWrites(c)
        => \A r \in Reqs :
            (/\ req[r].job_id # ""
             /\ The(cb[c].payload).jobId = req[r].job_id
             /\ The(cb[c].payload).projectId = ProjectOf(r)
             /\ The(cb[c].payload).agentMessageId = "")
            => PlaceholderMessage(r) \in messages]_vars

\* C20 (as claimed): every send_message request that entered the handler
\* returns to its caller, also when the queue or the generator never replies.
C20_AlwaysReturns ==
    \A r \in Reqs : Started(r) ~> (req[r].pc = "done")

\* C22 (as claimed): the step that follows a successful enqueue persists the
\* placeholder: a message of senderType agent under the id derived from the
\* job id, stamped t0 + 500, with the single thought "Queued"; the request
\* then sets lastMessageAt and updatedAt of the project to t0 + 500.
C22_PlaceholderPersisted ==
    [][\A r \in Reqs :
        /\ (req[r].pc = "insert_placeholder" /\ req'[r].pc # "insert_placeholder")
           => /\ req'[r].pc = "touch_queued"
              /\ \E m \in messages' :
                    /\ m.id = build_agent_message_id(req[r].job_id)
                    /\ m.projectId = ProjectOf(r)
                    /\ m.senderType = "agent"
                    /\ m.timestamp = req[r].timestamp + 500
                    /\ m.thoughts = <<"Queued">>
        /\ (req[r].pc = "touch_queued" /\ req'[r].pc # "touch_queued")
           => /\ projects'[ProjectOf(r)].lastMessageAt = Some(req[r].timestamp + 500)
              /\ projects'[ProjectOf(r)].updatedAt = req[r].timestamp + 500]_vars

\* C23: a callback that is let through takes its timestamp from the clock at
\* the time it is handled; the message it writes carries that timestamp, and
\* when it returns 204 the project's lastMessageAt and updatedAt both equal
\* it.
C23_CallbackTimestamps ==
    [][\A c \in Cbs :
        /\ (cb[c].pc = "idle" /\ cb'[c].pc = "insert")
           => cb'[c].timestamp = clock' /\ clock' >= clock
        /\ CallbackWrites(c) /\ cb'[c].pc = "touch"
           => \E m \in messages' \ messages :
                /\ m.id = ResolveAgentMessageId(The(cb[c].payload))
                /\ m.timestamp = cb[c].timestamp
        /\ (cb[c].pc = "touch" /\ cb'[c].pc = "done")
           => LET p == The(cb[c].payload).projectId
              IN /\ cb'[c].status = 204
                 /\ projects'[p].lastMessageAt = Some(cb[c].timestamp)
                 /\ projects'[p].updatedAt = cb[c].timestamp
                 /\ \E m \in messages' :
                        /\ m.id = ResolveAgentMessageId(The(cb[c].payload))
                        /\ m.timestamp = cb[c].timestamp]_vars

\* C23 witness: a callback handled after the clock had advanced has returned
\* 204 and the project carries the timestamp of the message it wrote.
C23_Witness ==
    \E c \in Cbs :
        /\ cb[c].pc = "done" /\ cb[c].status = 204
        /\ \E m \in messages :
                /\ m.id = build_agent_message_id("job-ext")
                /\ m.timestamp > PlaceholderOffset
                /\ projects[m.projectId].lastMessageAt = Some(m.timestamp)
                /\ projects[m.projectId].updatedAt = m.timestamp

\* The payload of a callback for job j that names no agentMessageId.
PayloadOmittingId(j, p) ==
    [jobId |-> j, projectId |-> p, response |-> ResponseTexts[1],
     thoughts |-> <<>>, agentMessageId |-> ""]

\* C24: for every job the pipeline enqueued, the id a callback resolves when
\* it names no agentMessageId is the agentMessageId of the queued payload and
\* the id under which the request writes the placeholder; a callback that
\* names an agentMessageId writes under that id.
C24_IdentityAgreement ==
    /\ \A i \in 1..Len(queue) :
            ResolveAgentMessageId(PayloadOmittingId(queue[i].jobId, queue[i].project.id))
                = queue[i].agentMessageId
    /\ \A r \in Reqs :
            req[r].job_id # ""
            => /\ ResolveAgentMessageId(PayloadOmittingId(req[r].job_id, ProjectOf(r)))
                    = req[r].agent_message_id
               /\ PlaceholderMessage(r).id = req[r].agent_message_id
               /\ \E i \in 1..Len(queue) :
                    /\ queue[i].jobId = req[r].job_id
                    /\ queue[i].agentMessageId = req[r].agent_message_id
    /\ \A c \in Cbs :
            cb[c].pc \in {"insert", "touch"}
            => LET payload == The(cb[c].payload)
               IN /\ payload.agentMessageId # ""
                     => CallbackMessage(payload, cb[c].timestamp).id = payload.agentMessageId
                  /\ cb[c].pc = "touch"
                     => \E m \in messages :
                            m.id = IF payload.agentMessageId # ""
                                   THEN payload.agentMessageId
                                   ELSE "msg-agent-" \o payload.jobId

\* C24 witness: the placeholder of a queued job is stored while a callback
\* for that job, naming no id, is about to write under the same id.
C24_Witness ==
    \E r \in Reqs, c \in Cbs :
        /\ req[r].job_id # ""
        /\ PlaceholderMessage(r) \in messages
        /\ cb[c].pc = "insert"
        /\ The(cb[c].payload).jobId = req[r].job_id
        /\ The(cb[c].payload).agentMessageId = ""
        /\ CallbackMessage(The(cb[c].payload), cb[c].timestamp).id = PlaceholderMessage(r).id

\* C25: every step that changes the queue is the enqueue of one request, with
\* a queue configured: it adds one payload at the tail and leaves the jobs
\* queued before in place and in order; the payload holds the job id, the
\* project as the request read it, the user content, the callback path and
\* the agent-message id handed back to the request. A successful enqueue
\* always adds its job, and with no queue configured nothing is ever added and
\* the request goes on without a job.
C25_EnqueueAppendsAtTail ==
    [][/\ queue' # queue
            => /\ get_redis
               /\ Len(queue') = Len(queue) + 1
               /\ SubSeq(queue', 1, Len(queue)) = queue
               /\ \E r \in Reqs :
                    LET job == queue'[Len(queue')]
                    IN /\ req[r].pc = "dispatch" /\ req'[r].pc = "insert_placeholder"
                       /\ DOMAIN job = {"jobId", "project", "userContent",
                                        "callbackPath", "agentMessageId"}
                       /\ job.jobId = req'[r].job_id
                       /\ job.project = The(req[r].project)
                       /\ job.userContent = req[r].content
                       /\ job.callbackPath = "/orchestrator/callback"
                       /\ job.agentMessageId = req'[r].agent_message_id
                       /\ \A i \in 1..Len(queue) : queue[i].jobId # job.jobId
       /\ \A r \in Reqs :
            /\ (req[r].pc = "dispatch" /\ req'[r].job_id # "") => queue' # queue
            /\ (req[r].pc = "dispatch" /\ req'[r].pc # "dispatch" /\ ~get_redis)
                => queue' = queue /\ req'[r].job_id = "" /\ req'[r].pc = "generate"]_vars

\* C25 witness: two jobs are queued, in the order in which they were pushed.
C25_Witness ==
    /\ Len(queue) = 2
    /\ \E r1, r2 \in Reqs :
            /\ r1 # r2
            /\ queue[1].jobId = req[r1].job_id
            /\ queue[2].jobId = req[r2].job_id
            /\ queue[1].userContent # queue[2].userContent

\* C26 (as claimed): a request that has returned an inline answer ended in
\* the inline mode alone: none of the jobs pushed to the queue (the list keeps
\* them all here, the worker's pops are not followed) is a job of that
\* request, and no agent answer is stored under the id derived from a job of
\* that request.
C26_OneModeOnly ==
    \A r \in Reqs :
        (/\ Returned(r) /\ req[r].status = 202
         /\ \E a \in req[r].agent_msg : a.id = InlineMessageId(r))
        => /\ \A i \in 1..Len(queue) : queue[i].jobId # build_job_id(r)
           /\ build_agent_message_id(build_job_id(r)) \notin MessageIds

UserMessages == {m \in messages : m.senderType = "user"}

FirstPayload == The(cb[1].payload)
SecondPayload == The(cb[2].payload)
LogContent(rows) ==
    {[id |-> m.id, senderType |-> m.senderType, content |-> m.content] : m \in rows}
BothPending ==
    /\ cb[1].pc = "idle" /\ cb[1].payload # None
    /\ cb[2].pc = "idle" /\ cb[2].payload # None
OrdersAgree ==
    \A t1, t2 \in NowValues :
        LogContent(complete_job(complete_job(messages, FirstPayload, t1), SecondPayload, t2))
        = LogContent(complete_job(complete_job(messages, SecondPayload, t1), FirstPayload, t2))
\* The id a payload names for its answer: the explicit one, or "msg-agent-"
\* followed by the job id.
NamedId(payload) ==
    IF payload.agentMessageId # "" THEN payload.agentMessageId
    ELSE "msg-agent-" \o payload.jobId

\* C30 (as stated): two callbacks of distinct jobs, handled one after the
\* other, leave the same message ids, sender types and contents in either
\* order.
C30_DistinctJobsCommute ==
    (BothPending /\ FirstPayload.jobId # SecondPayload.jobId) => OrdersAgree

\* C30 (amended): two callbacks that name different agent message ids,
\* handled one after the other, leave the same message ids, sender types and
\* contents in either order.
C30_DistinctIdsCommute ==
    (BothPending /\ FirstPayload.jobId # SecondPayload.jobId
                 /\ NamedId(FirstPayload) # NamedId(SecondPayload)) => OrdersAgree

\* Two callbacks of distinct jobs, with different answer ids, were both
\* handled and both answers are stored.
C30_Witness ==
    /\ cb[1].pc = "done" /\ cb[1].status = 204
    /\ cb[2].pc = "done" /\ cb[2].status = 204
    /\ FirstPayload.jobId # SecondPayload.jobId
    /\ NamedId(FirstPayload) # NamedId(SecondPayload)
    /\ {NamedId(FirstPayload), NamedId(SecondPayload)} \subseteq MessageIds

\* C21: a project never has more than one research plan, also when several
\* get_plan and create_project requests reach ensure_plan_for_project on a
\* project without a plan at the same time, and a plan row appears only in
\* the insert of ensure_plan_for_project.
OnePlanPerProject ==
    \A p \in ProjectIds : Cardinality(PlanRowsFor(p)) <= 1
PlanRowsOnlyFromEnsure ==
    plan_rows' # plan_rows =>
        \E o \in Ops :
            /\ ops[o].pc = "ensure_insert"
            /\ ops'[o].pc = "done" /\ ops'[o].status \in {200, 201}
            /\ plan_rows' = plan_rows \cup {[id |-> ops[o].plan_id,
                                            projectId |-> The(ops[o].project).id]}
C21_OnePlanPerProject ==
    [](OnePlanPerProject) /\ [][PlanRowsOnlyFromEnsure]_vars

\* Two requests found no plan for the same project and both went on to
\* insert one: one row is stored, the other insert was refused.
C21_Witness ==
    \E o1, o2 \in Ops :
        /\ ops[o1].pc = "done" /\ ops[o1].plan_id # "" /\ ops[o1].status \in {200, 201}
        /\ ops[o2].pc = "done" /\ ops[o2].plan_id # "" /\ ops[o2].status = 500
        /\ ops[o1].project_id = ops[o2].project_id
        /\ PlanRowsFor(ops[o1].project_id)
            = {[id |-> ops[o1].plan_id, projectId |-> ops[o1].project_id]}

\* C28: a project's updatedAt is never smaller than its lastMessageAt, once
\* that is set, whatever send_message, callback and update_project requests
\* have run.
C28_UpdatedAtNotBeforeLastMessage ==
    \A p \in ProjectIds :
        (projects[p].exists /\ projects[p].lastMessageAt # None)
            => projects[p].updatedAt >= The(projects[p].lastMessageAt)

\* C29: every stored message and every stored plan belongs to a project that
\* exists, also while delete_project, which removes the messages, the plan and
\* the project row in three writes, runs between the steps of send_message
\* and callback requests on the same project.
C29_ReferentialIntegrity ==
    /\ \A m \in messages : projects[m.projectId].exists
    /\ \A row \in plan_rows : projects[row.projectId].exists
    /\ \A p \in ProjectIds : plans[p].exists => projects[p].exists

\* A delete_project request removed the project's messages, a message of the
\* project was stored after that, and the request has ended.
C29_Witness ==
    \E o \in Ops :
        /\ ops[o].route = "delete_project"
        /\ ops[o].pc = "done" /\ ops[o].status = 500
        /\ ProjectMessages(ops[o].project_id) # {}
        /\ projects[ops[o].project_id].exists
====
